---- MODULE Spec2Model ----
(***************************************************************************)
(* A state-machine model of GameClient (src/game.js): the browser client   *)
(* of a small multiplayer world.  One action per event handler of the      *)
(* class (socket callbacks, key events, timers, image loads, resize).      *)
(* JavaScript runs the handlers one at a time, so each handler is one      *)
(* atomic action.                                                          *)
(*                                                                         *)
(* Conventions                                                             *)
(*  - a JavaScript object used as a table (players, avatars, activeEmotes, *)
(*    avatarImages) is a function whose DOMAIN is the set of its keys;     *)
(*  - null is the string "null" (the key JavaScript itself uses when null  *)
(*    indexes an object);                                                  *)
(*  - camera.x and camera.y are kept in half pixels (fields x2, y2),       *)
(*    because width / 2 is fractional for an odd canvas width;             *)
(*  - time is Date.now() in milliseconds, relative to construction;        *)
(*  - inbound payloads are the well-formed messages of the wire protocol,  *)
(*    messages with an action the client does not know, and payloads that  *)
(*    do not parse.                                                        *)
(*                                                                         *)
(* History variables (not fields of the class): outbox, the messages given *)
(* to socket.send so far; keyLog, the key events so far; lastEvent, the    *)
(* handler that ran last, with its input; chatAdds, the number of          *)
(* addChatMessage calls since the initial state.                           *)
(***************************************************************************)
EXTENDS Integers, Sequences, FiniteSets, TLC

VARIABLES
    socketState,    \* this.socket.readyState
    outbox,         \* history: every message passed to this.socket.send
    pressedKeys,    \* this.pressedKeys
    keyLog,         \* history: key events handled so far
    customAvatar,   \* this.customAvatar (NoAvatar for null, or the avatar record)
    myPlayerId,     \* this.myPlayerId
    players,        \* this.players
    avatars,        \* this.avatars
    myPosition,     \* this.myPosition
    camera,         \* this.camera
    canvas,         \* this.canvas.width / height
    worldImage,     \* load state of this.worldImage
    avatarImages,   \* this.avatarImages
    loading,        \* Image objects whose onload has not run yet
    activeEmotes,   \* this.activeEmotes
    timers,         \* pending setTimeout callbacks, oldest first
    now,            \* Date.now()
    chatMessages,   \* this.chatMessages
    chatAdds,       \* history: addChatMessage calls since the initial state
    frame,          \* what the last render pass painted on the canvas
    lastEvent       \* history: the handler that ran last and its input

vars == <<socketState, outbox, pressedKeys, keyLog, customAvatar, myPlayerId,
          players, avatars, myPosition, camera, canvas, worldImage,
          avatarImages, loading, activeEmotes, timers, now, chatMessages,
          chatAdds, frame, lastEvent>>

----------------------------------------------------------------------------
(* Bounds of the model *)

MaxTime == 6000
MaxTimers == 2
MaxOutbox == 4
MaxKeyLog == 4
MaxChatAdds == 2

(* Constants of the program *)

worldSize == 2048
emoteDuration == 3000
maxChatMessages == 50
CullMargin == 50

Null == "null"

movementKeys ==
    [ArrowUp |-> "up", ArrowDown |-> "down", ArrowLeft |-> "left", ArrowRight |-> "right"]

emoteKeys ==
    [Digit1 |-> "wave", Digit2 |-> "dance", Digit3 |-> "jump",
     Digit4 |-> "heart", Digit5 |-> "laugh", Digit6 |-> "thumbsup"]

emoteEmojis == {"wave", "dance", "jump", "heart", "laugh", "thumbsup"}

LoadedDirections == <<"north", "south", "east">>

----------------------------------------------------------------------------
(* Inputs: the values the environment (user, server, browser) may supply *)

Ids == {"p1", "p2"}

Username(id) == IF id = "p1" THEN "Melvin" ELSE "Ana"

Keys == {"ArrowUp", "ArrowDown", "ArrowLeft", "ArrowRight", "Digit1", "Digit4", "Digit7", "KeyA"}

TimeSteps == {1000, 1500}

CanvasSizes ==
    { [width |-> 800, height |-> 600],
      [width |-> 1025, height |-> 2048],
      [width |-> 2500, height |-> 700] }

AvatarNames == {"a1", "a2"}

AvatarDef(name) ==
    [name |-> name,
     frames |-> [north |-> << "n0" >>, south |-> << "s0" >>,
                 east |-> IF name = "a2" THEN << "e0", "e1" >> ELSE << "e0" >>]]

CustomAvatarDef ==
    [name |-> "custom_avatar",
     frames |-> [north |-> << "img", "img", "img" >>,
                 south |-> << "img", "img", "img" >>,
                 east |-> << "img", "img", "img" >>]]

PlayerVariant(id, v) ==
    CASE v = 1 -> [id |-> id, username |-> Username(id), x |-> 100, y |-> 100,
                   facing |-> "south", animationFrame |-> 0, avatar |-> "a1"]
      [] v = 2 -> [id |-> id, username |-> Username(id), x |-> 1024, y |-> 2000,
                   facing |-> "west", animationFrame |-> 0, avatar |-> "a1"]
      [] v = 3 -> [id |-> id, username |-> Username(id), x |-> 2100, y |-> -20,
                   facing |-> "east", animationFrame |-> 1, avatar |-> "a2"]

PlayerPool(id) == { PlayerVariant(id, v) : v \in 1..3 }

PlayerTables(pool) ==
    UNION { { t \in [S -> UNION { PlayerPool(i) : i \in S }] : \A i \in S : t[i] \in pool /\ t[i].id = i }
            : S \in SUBSET Ids }

AvatarTables == { [n \in S |-> AvatarDef(n)] : S \in SUBSET AvatarNames }

----------------------------------------------------------------------------
(* Tables *)

EmptyTable == [k \in {} |-> k]

Put(t, k, v) == [x \in DOMAIN t \cup {k} |-> IF x = k THEN v ELSE t[x]]

Delete(t, k) == [x \in DOMAIN t \ {k} |-> t[x]]

Spread(t, u) == [x \in DOMAIN t \cup DOMAIN u |-> IF x \in DOMAIN u THEN u[x] ELSE t[x]]

Max(a, b) == IF a >= b THEN a ELSE b

Min(a, b) == IF a <= b THEN a ELSE b

----------------------------------------------------------------------------
(* Outbound messages (the objects given to JSON.stringify) *)

NoAvatar == [name |-> Null]

JoinMsg(avatar) ==
    IF avatar = NoAvatar
    THEN [action |-> "join_game", username |-> "Melvin"]
    ELSE [action |-> "join_game", username |-> "Melvin", avatar |-> avatar]

MoveMsg(direction) == [action |-> "move", direction |-> direction]

StopMsg == [action |-> "stop"]

EmoteMsg(emoteType) == [action |-> "emote", emote |-> emoteType]

ChatMsg(message) == [action |-> "chat", message |-> message]

(* The messages a send function passes to socket.send: none unless the    *)
(* socket is open.                                                         *)
IsOpen(state) == state = "OPEN"

sendMoveCommand(state, direction) ==
    IF IsOpen(state) THEN << MoveMsg(direction) >> ELSE << >>

sendStopCommand(state) ==
    IF IsOpen(state) THEN << StopMsg >> ELSE << >>

----------------------------------------------------------------------------
(* Input mapper *)

KeyDownDirection(code) == movementKeys[code]

KeyDownPressed(keys, code) == keys \cup {code}

KeyUpPressed(keys, code) == keys \ {code}

KeyUpSends_Always(state, keys) == sendStopCommand(state)

KeyUpSends(state, keys) ==
    IF Cardinality(keys) = 0 THEN sendStopCommand(state) ELSE << >>

----------------------------------------------------------------------------
(* World state store *)

JoinPlayerId(m) == m.playerId

JoinPlayers_Merged(old, m) == Spread(old, m.players)

JoinPlayers(old, m) == m.players

JoinAvatars(old, m) == m.avatars

MovedPlayers_Replaced(old, m) == m.players

MovedPlayers(old, m) == Spread(old, m.players)

JoinedPlayers(old, m) == Put(old, m.player.id, m.player)

JoinedAvatars(old, m) == Put(old, m.avatar.name, m.avatar)

LeftPlayers(old, m) == Delete(old, m.playerId)

LeftEmotes_Kept(old, m) == old

LeftEmotes(old, m) == Delete(old, m.playerId)

updateMyPosition(id, pl, pos) ==
    IF id # Null /\ id \in DOMAIN pl
    THEN [x |-> pl[id].x, y |-> pl[id].y]
    ELSE pos

(* Camera.  x2 and y2 are camera.x and camera.y in half pixels.            *)
Clamp2_NoUpper(centered2, limit) == Max(0, centered2)

Clamp2(centered2, limit) == Max(0, Min(centered2, 2 * limit))

updateCamera(cv, pos) ==
    [width |-> cv.width,
     height |-> cv.height,
     x2 |-> Clamp2(2 * pos.x - cv.width, worldSize - cv.width),
     y2 |-> Clamp2(2 * pos.y - cv.height, worldSize - cv.height)]

----------------------------------------------------------------------------
(* Effect tracker *)

showEmote_KeepFirst(emotes, playerId, emoteType, t) ==
    IF playerId \in DOMAIN emotes
    THEN emotes
    ELSE Put(emotes, playerId, [type |-> emoteType, startTime |-> t])

showEmote(emotes, playerId, emoteType, t) ==
    Put(emotes, playerId, [type |-> emoteType, startTime |-> t])

ExpiryTimer(playerId, t) == [playerId |-> playerId, due |-> t + emoteDuration]

ExpireEmote(emotes, timer) == Delete(emotes, timer.playerId)

(* drawEmote's view of an entity's effect: none when there is no record,   *)
(* else the elapsed time, whose ratio to emoteDuration is the progress.    *)
HasEmote(emotes, playerId) == playerId \in DOMAIN emotes

Elapsed(emotes, playerId, t) == t - emotes[playerId].startTime

----------------------------------------------------------------------------
(* Chat log.  An entry's message is the sequence of the strings that the   *)
(* code concatenates into it.                                              *)

TimeString(t) == t \div 60000

ChatEntry(username, message, type, t) ==
    [username |-> username, message |-> message, timestamp |-> TimeString(t), type |-> type]

addChatMessage_OffByOne(log, entry) ==
    LET pushed == Append(log, entry)
    IN IF Len(pushed) >= maxChatMessages THEN Tail(pushed) ELSE pushed

addChatMessage(log, entry) ==
    LET pushed == Append(log, entry)
    IN IF Len(pushed) > maxChatMessages THEN Tail(pushed) ELSE pushed

WelcomeEntry == ChatEntry("System", << "Welcome to the game! Type messages to chat with other players." >>, "system", 0)

JoinedEntry(t) == ChatEntry("System", << "Successfully joined the game!" >>, "system", t)

JoinFailedEntry_DefaultType(m, t) == ChatEntry("System", << "Failed to join game: ", m.error >>, "other", t)

JoinFailedEntry(m, t) == ChatEntry("System", << "Failed to join game: ", m.error >>, "system", t)

PlayerJoinedEntry(m, t) == ChatEntry("System", << m.player.username, " joined the game!" >>, "system", t)

PlayerLeftEntry(player, t) == ChatEntry("System", << player.username, " left the game." >>, "system", t)

----------------------------------------------------------------------------
(* Asset cache *)

NoFrames == [north |-> {}, south |-> {}, east |-> {}]

FrameLoads(avatar) ==
    { [name |-> avatar.name, direction |-> LoadedDirections[d], index |-> i - 1]
      : <<d, i>> \in { pr \in (1..3) \X (1..3) : pr[2] <= Len(avatar.frames[LoadedDirections[pr[1]]]) } }

loadAvatarImage(images, avatar) ==
    IF avatar.name \in DOMAIN images THEN images ELSE Put(images, avatar.name, NoFrames)

loadAvatarImageStarts_Always(images, avatar) == FrameLoads(avatar)

loadAvatarImageStarts(images, avatar) ==
    IF avatar.name \in DOMAIN images THEN {} ELSE FrameLoads(avatar)

loadAvatarImages(images, avs) ==
    [n \in DOMAIN images \cup { avs[k].name : k \in DOMAIN avs } |->
        IF n \in DOMAIN images THEN images[n] ELSE NoFrames]

loadAvatarImagesStarts(images, avs) ==
    UNION { loadAvatarImageStarts(images, avs[k]) : k \in DOMAIN avs }

ImageReady(images, load) ==
    [images EXCEPT ![load.name][load.direction] = @ \cup {load.index}]

----------------------------------------------------------------------------
(* Renderer: what one render pass paints *)

BlankFrame == [background |-> FALSE, sprites |-> {}, emotes |-> {}]

InViewport(player, cam) ==
    LET screenX2 == 2 * player.x - cam.x2
        screenY2 == 2 * player.y - cam.y2
    IN ~ ( \/ screenX2 < -(2 * CullMargin)
           \/ screenX2 > 2 * (cam.width + CullMargin)
           \/ screenY2 < -(2 * CullMargin)
           \/ screenY2 > 2 * (cam.height + CullMargin) )

FrameDirection(player) == IF player.facing = "west" THEN "east" ELSE player.facing

drawAvatar(player, avs, images, cam) ==
    /\ InViewport(player, cam)
    /\ player.avatar \in DOMAIN avs
    /\ player.avatar \in DOMAIN images
    /\ FrameDirection(player) \in DOMAIN images[player.avatar]
    /\ player.animationFrame \in images[player.avatar][FrameDirection(player)]

Sprite(player) ==
    [id |-> player.id, direction |-> FrameDirection(player),
     index |-> player.animationFrame, flipped |-> player.facing = "west"]

Glyph(type) == IF type \in emoteEmojis THEN type ELSE "smile"

drawEmote(playerId, emotes, t) ==
    IF ~HasEmote(emotes, playerId)
    THEN {}
    ELSE { [id |-> playerId, glyph |-> Glyph(emotes[playerId].type),
            elapsed |-> Elapsed(emotes, playerId, t)] }

FrameOf(wimg, pl, avs, images, cam, emotes, t) ==
    IF wimg = "broken"
    THEN BlankFrame
    ELSE LET drawn == { k \in DOMAIN pl : drawAvatar(pl[k], avs, images, cam) }
         IN [background |-> wimg = "loaded",
             sprites |-> { Sprite(pl[k]) : k \in drawn },
             emotes |-> UNION { drawEmote(pl[k].id, emotes, t) : k \in drawn }]

----------------------------------------------------------------------------
(* Initial state: the fields the constructor sets, then init(): the canvas *)
(* takes the window's size, the world image starts loading, setupChat adds *)
(* the welcome entry and connectToServer creates the socket.               *)

Event(kind, arg, rendered) == [kind |-> kind, arg |-> arg, rendered |-> rendered]

InitWith(cv, log) ==
    /\ socketState = "CONNECTING"
    /\ outbox = << >>
    /\ pressedKeys = {}
    /\ keyLog = << >>
    /\ customAvatar = NoAvatar
    /\ myPlayerId = Null
    /\ players = EmptyTable
    /\ avatars = EmptyTable
    /\ myPosition = [x |-> 0, y |-> 0]
    /\ camera = [x2 |-> 0, y2 |-> 0, width |-> 0, height |-> 0]
    /\ canvas = cv
    /\ worldImage = "loading"
    /\ avatarImages = EmptyTable
    /\ loading = {}
    /\ activeEmotes = EmptyTable
    /\ timers = << >>
    /\ now = 0
    /\ chatMessages = log
    /\ chatAdds = 0
    /\ frame = BlankFrame
    /\ lastEvent = Event("init", "-", FALSE)

Init == \E cv \in CanvasSizes : InitWith(cv, << WelcomeEntry >>)

(* The last step of a handler: a render pass when the handler calls        *)
(* render(), else the canvas keeps what it shows.                          *)
Paint_Skipped(rendered) == frame' = frame

Paint(rendered) ==
    frame' = IF rendered
             THEN FrameOf(worldImage', players', avatars', avatarImages', camera',
                          activeEmotes', now')
             ELSE frame

----------------------------------------------------------------------------
(* Connection channel *)

joinGame(avatar) == JoinMsg(avatar)

SocketOpen ==
    /\ socketState = "CONNECTING"
    /\ Len(outbox) < MaxOutbox
    /\ socketState' = "OPEN"
    /\ outbox' = Append(outbox, joinGame(customAvatar))
    /\ lastEvent' = Event("open", "-", FALSE)
    /\ UNCHANGED <<pressedKeys, keyLog, customAvatar, myPlayerId, players, avatars,
                   myPosition, camera, canvas, worldImage, avatarImages, loading,
                   activeEmotes, timers, now, chatMessages, chatAdds>>
    /\ Paint(FALSE)

SocketClosing ==
    /\ socketState = "OPEN"
    /\ socketState' = "CLOSING"
    /\ lastEvent' = Event("closing", "-", FALSE)
    /\ UNCHANGED <<outbox, pressedKeys, keyLog, customAvatar, myPlayerId, players,
                   avatars, myPosition, camera, canvas, worldImage, avatarImages,
                   loading, activeEmotes, timers, now, chatMessages, chatAdds>>
    /\ Paint(FALSE)

(* onclose and onerror only log: this.socket stays the closed socket.  A   *)
(* reconnecting client would assign a new WebSocket here.                  *)
onclose_Reconnect(state) == "CONNECTING"

onclose(state) == "CLOSED"

SocketClose ==
    /\ socketState \in {"CONNECTING", "OPEN", "CLOSING"}
    /\ socketState' = onclose(socketState)
    /\ lastEvent' = Event("close", "-", FALSE)
    /\ UNCHANGED <<outbox, pressedKeys, keyLog, customAvatar, myPlayerId, players,
                   avatars, myPosition, camera, canvas, worldImage, avatarImages,
                   loading, activeEmotes, timers, now, chatMessages, chatAdds>>
    /\ Paint(FALSE)

----------------------------------------------------------------------------
(* User input *)

IsDigitKey(code) == code \in {"Digit0", "Digit1", "Digit2", "Digit3", "Digit4",
                              "Digit5", "Digit6", "Digit7", "Digit8", "Digit9"}

sendEmote(state, emoteType) ==
    IF IsOpen(state) THEN << EmoteMsg(emoteType) >> ELSE << >>

(* sendEmote's effect on the socket and the effect tracker: when the       *)
(* message is sent, the emote is shown for this.myPlayerId at once.        *)
SendEmote(emoteType) ==
    LET out == sendEmote(socketState, emoteType)
    IN /\ Len(outbox) + Len(out) <= MaxOutbox
       /\ outbox' = outbox \o out
       /\ IF out # << >>
          THEN /\ Len(timers) < MaxTimers
               /\ activeEmotes' = showEmote(activeEmotes, myPlayerId, emoteType, now)
               /\ timers' = Append(timers, ExpiryTimer(myPlayerId, now))
          ELSE UNCHANGED <<activeEmotes, timers>>

KeyDown(code) ==
    /\ Len(keyLog) < MaxKeyLog
    /\ keyLog' = Append(keyLog, [type |-> "down", code |-> code, open |-> IsOpen(socketState)])
    /\ lastEvent' = Event("keydown", code, code \in DOMAIN emoteKeys /\ IsOpen(socketState))
    /\ IF ~IsDigitKey(code) /\ code \in DOMAIN movementKeys
       THEN LET out == sendMoveCommand(socketState, KeyDownDirection(code))
            IN /\ pressedKeys' = KeyDownPressed(pressedKeys, code)
               /\ Len(outbox) + Len(out) <= MaxOutbox
               /\ outbox' = outbox \o out
               /\ UNCHANGED <<activeEmotes, timers>>
       ELSE IF code \in DOMAIN emoteKeys
       THEN /\ SendEmote(emoteKeys[code])
            /\ UNCHANGED pressedKeys
       ELSE UNCHANGED <<pressedKeys, outbox, activeEmotes, timers>>
    /\ UNCHANGED <<socketState, customAvatar, myPlayerId, players, avatars, myPosition,
                   camera, canvas, worldImage, avatarImages, loading, now,
                   chatMessages, chatAdds>>
    /\ Paint(lastEvent'.rendered)

KeyUp(code) ==
    /\ Len(keyLog) < MaxKeyLog
    /\ keyLog' = Append(keyLog, [type |-> "up", code |-> code, open |-> IsOpen(socketState)])
    /\ lastEvent' = Event("keyup", code, FALSE)
    /\ IF code \in DOMAIN movementKeys
       THEN LET out == KeyUpSends(socketState, KeyUpPressed(pressedKeys, code))
            IN /\ pressedKeys' = KeyUpPressed(pressedKeys, code)
               /\ Len(outbox) + Len(out) <= MaxOutbox
               /\ outbox' = outbox \o out
       ELSE UNCHANGED <<pressedKeys, outbox>>
    /\ UNCHANGED <<socketState, customAvatar, myPlayerId, players, avatars, myPosition,
                   camera, canvas, worldImage, avatarImages, loading, activeEmotes,
                   timers, now, chatMessages, chatAdds>>
    /\ Paint(FALSE)

EmoteClick(emoteType) ==
    /\ lastEvent' = Event("emote_click", emoteType, IsOpen(socketState))
    /\ SendEmote(emoteType)
    /\ UNCHANGED <<socketState, pressedKeys, keyLog, customAvatar, myPlayerId, players,
                   avatars, myPosition, camera, canvas, worldImage, avatarImages,
                   loading, now, chatMessages, chatAdds>>
    /\ Paint(lastEvent'.rendered)

sendChatMessage_Unguarded(state, message) == << ChatMsg(message) >>

sendChatMessage(state, message) ==
    IF IsOpen(state) THEN << ChatMsg(message) >> ELSE << >>

ChatEnter(message) ==
    LET out == sendChatMessage(socketState, message)
    IN /\ lastEvent' = Event("chat_enter", message, FALSE)
       /\ Len(outbox) + Len(out) <= MaxOutbox
       /\ outbox' = outbox \o out
       /\ IF out # << >>
          THEN /\ chatAdds < MaxChatAdds
               /\ chatMessages' = addChatMessage(chatMessages, ChatEntry("You", << message >>, "own", now))
               /\ chatAdds' = chatAdds + 1
          ELSE UNCHANGED <<chatMessages, chatAdds>>
       /\ UNCHANGED <<socketState, pressedKeys, keyLog, customAvatar, myPlayerId,
                      players, avatars, myPosition, camera, canvas, worldImage,
                      avatarImages, loading, activeEmotes, timers, now>>
       /\ Paint(FALSE)

rejoinWithCustomAvatar(state, avatar) ==
    IF IsOpen(state) /\ avatar # NoAvatar THEN << JoinMsg(avatar) >> ELSE << >>

AvatarUpload ==
    LET out == rejoinWithCustomAvatar(socketState, CustomAvatarDef)
    IN /\ lastEvent' = Event("upload", "-", FALSE)
       /\ customAvatar' = CustomAvatarDef
       /\ Len(outbox) + Len(out) <= MaxOutbox
       /\ outbox' = outbox \o out
       /\ UNCHANGED <<socketState, pressedKeys, keyLog, myPlayerId, players, avatars,
                      myPosition, camera, canvas, worldImage, avatarImages, loading,
                      activeEmotes, timers, now, chatMessages, chatAdds>>
       /\ Paint(FALSE)

----------------------------------------------------------------------------
(* Inbound messages: socket.onmessage -> handleMessage, one action per     *)
(* case of the switch.  The socket delivers messages only while open.      *)

(* A payload is JSON text holding a message object (kind "json", with the  *)
(* object as its value), JSON text holding null (kind "null"), or text     *)
(* that is not JSON (kind "text").  JSON.parse throws on the last, and     *)
(* handleMessage throws on the second when it reads message.action; the    *)
(* catch block of onmessage takes both.                                    *)
Throws(data) == data.kind # "json"

JSONparse(data) == data.value

KnownActions == {"join_game", "players_moved", "player_joined", "player_left", "emote", "chat"}

(* The switch of handleMessage: the case a message takes, "none" when no   *)
(* case matches (the switch has no default).                               *)
CaseOf_DefaultChat(m) == IF m.action \in KnownActions THEN m.action ELSE "chat"

CaseOf(m) == IF m.action \in KnownActions THEN m.action ELSE "none"

OnJoinAccepted(m) ==
    /\ IsOpen(socketState)
    /\ CaseOf(m) = "join_game" /\ m.success
    /\ chatAdds < MaxChatAdds
    /\ lastEvent' = Event("join_accepted", m, TRUE)
    /\ myPlayerId' = JoinPlayerId(m)
    /\ players' = JoinPlayers(players, m)
    /\ avatars' = JoinAvatars(avatars, m)
    /\ avatarImages' = loadAvatarImages(avatarImages, avatars')
    /\ loading' = loading \cup loadAvatarImagesStarts(avatarImages, avatars')
    /\ myPosition' = updateMyPosition(myPlayerId', players', myPosition)
    /\ camera' = updateCamera(canvas, myPosition')
    /\ chatMessages' = addChatMessage(chatMessages, JoinedEntry(now))
    /\ chatAdds' = chatAdds + 1
    /\ UNCHANGED <<socketState, outbox, pressedKeys, keyLog, customAvatar, canvas,
                   worldImage, activeEmotes, timers, now>>
    /\ Paint(TRUE)

OnJoinRejected(m) ==
    /\ IsOpen(socketState)
    /\ CaseOf(m) = "join_game" /\ ~m.success
    /\ chatAdds < MaxChatAdds
    /\ lastEvent' = Event("join_rejected", m, FALSE)
    /\ chatMessages' = addChatMessage(chatMessages, JoinFailedEntry(m, now))
    /\ chatAdds' = chatAdds + 1
    /\ UNCHANGED <<socketState, outbox, pressedKeys, keyLog, customAvatar, myPlayerId,
                   players, avatars, myPosition, camera, canvas, worldImage,
                   avatarImages, loading, activeEmotes, timers, now>>
    /\ Paint(FALSE)

OnPlayersMoved(m) ==
    /\ IsOpen(socketState)
    /\ CaseOf(m) = "players_moved"
    /\ lastEvent' = Event("players_moved", m, TRUE)
    /\ players' = MovedPlayers(players, m)
    /\ myPosition' = updateMyPosition(myPlayerId, players', myPosition)
    /\ camera' = updateCamera(canvas, myPosition')
    /\ UNCHANGED <<socketState, outbox, pressedKeys, keyLog, customAvatar, myPlayerId,
                   avatars, canvas, worldImage, avatarImages, loading, activeEmotes,
                   timers, now, chatMessages, chatAdds>>
    /\ Paint(TRUE)

OnPlayerJoined(m) ==
    /\ IsOpen(socketState)
    /\ CaseOf(m) = "player_joined"
    /\ chatAdds < MaxChatAdds
    /\ lastEvent' = Event("player_joined", m, TRUE)
    /\ players' = JoinedPlayers(players, m)
    /\ avatars' = JoinedAvatars(avatars, m)
    /\ avatarImages' = loadAvatarImage(avatarImages, m.avatar)
    /\ loading' = loading \cup loadAvatarImageStarts(avatarImages, m.avatar)
    /\ chatMessages' = addChatMessage(chatMessages, PlayerJoinedEntry(m, now))
    /\ chatAdds' = chatAdds + 1
    /\ UNCHANGED <<socketState, outbox, pressedKeys, keyLog, customAvatar, myPlayerId,
                   myPosition, camera, canvas, worldImage, activeEmotes, timers, now>>
    /\ Paint(TRUE)

OnPlayerLeft(m) ==
    /\ IsOpen(socketState)
    /\ CaseOf(m) = "player_left"
    /\ lastEvent' = Event("player_left", m, TRUE)
    /\ players' = LeftPlayers(players, m)
    /\ activeEmotes' = LeftEmotes(activeEmotes, m)
    /\ IF m.playerId \in DOMAIN players
       THEN /\ chatAdds < MaxChatAdds
            /\ chatMessages' = addChatMessage(chatMessages,
                                              PlayerLeftEntry(players[m.playerId], now))
            /\ chatAdds' = chatAdds + 1
       ELSE UNCHANGED <<chatMessages, chatAdds>>
    /\ UNCHANGED <<socketState, outbox, pressedKeys, keyLog, customAvatar, myPlayerId,
                   avatars, myPosition, camera, canvas, worldImage, avatarImages,
                   loading, timers, now>>
    /\ Paint(TRUE)

OnEmote(m) ==
    /\ IsOpen(socketState)
    /\ CaseOf(m) = "emote"
    /\ Len(timers) < MaxTimers
    /\ lastEvent' = Event("emote", m, TRUE)
    /\ activeEmotes' = showEmote(activeEmotes, m.playerId, m.emote, now)
    /\ timers' = Append(timers, ExpiryTimer(m.playerId, now))
    /\ UNCHANGED <<socketState, outbox, pressedKeys, keyLog, customAvatar, myPlayerId,
                   players, avatars, myPosition, camera, canvas, worldImage,
                   avatarImages, loading, now, chatMessages, chatAdds>>
    /\ Paint(TRUE)

OnChat(m) ==
    /\ IsOpen(socketState)
    /\ CaseOf(m) = "chat"
    /\ chatAdds < MaxChatAdds
    /\ lastEvent' = Event("chat", m, FALSE)
    /\ chatMessages' = addChatMessage(chatMessages,
                                      ChatEntry(m.username, << m.message >>, "other", now))
    /\ chatAdds' = chatAdds + 1
    /\ UNCHANGED <<socketState, outbox, pressedKeys, keyLog, customAvatar, myPlayerId,
                   players, avatars, myPosition, camera, canvas, worldImage,
                   avatarImages, loading, activeEmotes, timers, now>>
    /\ Paint(FALSE)

(* A message no case of the switch matches: handleMessage returns.         *)
OnUnknown(m) ==
    /\ IsOpen(socketState)
    /\ CaseOf(m) = "none"
    /\ lastEvent' = Event("unknown", m, FALSE)
    /\ UNCHANGED <<socketState, outbox, pressedKeys, keyLog, customAvatar, myPlayerId,
                   players, avatars, myPosition, camera, canvas, worldImage,
                   avatarImages, loading, activeEmotes, timers, now, chatMessages,
                   chatAdds>>
    /\ Paint(FALSE)

(* A payload on which the try block of onmessage throws: the catch block   *)
(* logs the error.                                                         *)
OnUnparseable(data) ==
    /\ IsOpen(socketState)
    /\ Throws(data)
    /\ lastEvent' = Event("unparseable", data, FALSE)
    /\ UNCHANGED <<socketState, outbox, pressedKeys, keyLog, customAvatar, myPlayerId,
                   players, avatars, myPosition, camera, canvas, worldImage,
                   avatarImages, loading, activeEmotes, timers, now, chatMessages,
                   chatAdds>>
    /\ Paint(FALSE)

----------------------------------------------------------------------------
(* Timers, the clock, image loads, the window *)

(* The callback showEmote gave to setTimeout.  All timers have the same    *)
(* delay, so they run in the order they were set; a callback never runs    *)
(* before it is due and may run late.                                      *)
EmoteTimeout ==
    /\ timers # << >>
    /\ now >= Head(timers).due
    /\ lastEvent' = Event("timer", Head(timers), TRUE)
    /\ activeEmotes' = ExpireEmote(activeEmotes, Head(timers))
    /\ timers' = Tail(timers)
    /\ UNCHANGED <<socketState, outbox, pressedKeys, keyLog, customAvatar, myPlayerId,
                   players, avatars, myPosition, camera, canvas, worldImage,
                   avatarImages, loading, now, chatMessages, chatAdds>>
    /\ Paint(TRUE)

Tick(d) ==
    /\ now + d <= MaxTime
    /\ now' = now + d
    /\ lastEvent' = Event("tick", d, FALSE)
    /\ UNCHANGED <<socketState, outbox, pressedKeys, keyLog, customAvatar, myPlayerId,
                   players, avatars, myPosition, camera, canvas, worldImage,
                   avatarImages, loading, activeEmotes, timers, chatMessages, chatAdds>>
    /\ Paint(FALSE)

ImageLoad(load) ==
    /\ load \in loading
    /\ lastEvent' = Event("image", load, TRUE)
    /\ avatarImages' = ImageReady(avatarImages, load)
    /\ loading' = loading \ {load}
    /\ UNCHANGED <<socketState, outbox, pressedKeys, keyLog, customAvatar, myPlayerId,
                   players, avatars, myPosition, camera, canvas, worldImage,
                   activeEmotes, timers, now, chatMessages, chatAdds>>
    /\ Paint(TRUE)

WorldImageLoad ==
    /\ worldImage = "loading"
    /\ worldImage' = "loaded"
    /\ lastEvent' = Event("world_loaded", "-", TRUE)
    /\ camera' = updateCamera(canvas, myPosition)
    /\ UNCHANGED <<socketState, outbox, pressedKeys, keyLog, customAvatar, myPlayerId,
                   players, avatars, myPosition, canvas, avatarImages, loading,
                   activeEmotes, timers, now, chatMessages, chatAdds>>
    /\ Paint(TRUE)

WorldImageError ==
    /\ worldImage = "loading"
    /\ worldImage' = "broken"
    /\ lastEvent' = Event("world_error", "-", FALSE)
    /\ UNCHANGED <<socketState, outbox, pressedKeys, keyLog, customAvatar, myPlayerId,
                   players, avatars, myPosition, camera, canvas, avatarImages, loading,
                   activeEmotes, timers, now, chatMessages, chatAdds>>
    /\ Paint(FALSE)

Resize(cv) ==
    /\ canvas' = cv
    /\ lastEvent' = Event("resize", cv, TRUE)
    /\ camera' = updateCamera(canvas', myPosition)
    /\ UNCHANGED <<socketState, outbox, pressedKeys, keyLog, customAvatar, myPlayerId,
                   players, avatars, myPosition, worldImage, avatarImages, loading,
                   activeEmotes, timers, now, chatMessages, chatAdds>>
    /\ Paint(TRUE)

(* render() on its own, as any caller invokes it.  drawEmote reads         *)
(* activeEmotes[playerId] and neither assigns nor deletes it, whatever the *)
(* record's age, so the effect table after a render pass is the table      *)
(* before it; an effect tracker that expired records when drawing them     *)
(* would delete here.                                                      *)
EffectsAfterRender_Lazy(emotes, t) ==
    [id \in { i \in DOMAIN emotes : Elapsed(emotes, i, t) < emoteDuration } |-> emotes[id]]

EffectsAfterRender(emotes, t) == emotes

render ==
    /\ lastEvent' = Event("render", "-", TRUE)
    /\ activeEmotes' = EffectsAfterRender(activeEmotes, now)
    /\ UNCHANGED <<socketState, outbox, pressedKeys, keyLog, customAvatar, myPlayerId,
                   players, avatars, myPosition, camera, canvas, worldImage,
                   avatarImages, loading, timers, now, chatMessages, chatAdds>>
    /\ Paint(TRUE)

----------------------------------------------------------------------------
(* Inbound messages the server may send *)

JoinAcceptedMsgs(ids, tables, avatarTables) ==
    { [action |-> "join_game", success |-> TRUE, playerId |-> i, players |-> t, avatars |-> a]
      : i \in ids, t \in tables, a \in avatarTables }

JoinRejectedMsgs ==
    { [action |-> "join_game", success |-> FALSE, error |-> "Server full"] }

PlayersMovedMsgs(tables) ==
    { [action |-> "players_moved", players |-> t] : t \in tables }

PlayerJoinedMsgs(pool) ==
    { [action |-> "player_joined", player |-> p, avatar |-> AvatarDef(p.avatar)]
      : p \in { q \in UNION { PlayerPool(i) : i \in Ids } : q \in pool } }

PlayerLeftMsgs ==
    { [action |-> "player_left", playerId |-> i] : i \in Ids }

EmoteMsgs(types) ==
    { [action |-> "emote", playerId |-> i, emote |-> e] : i \in Ids, e \in types }

ChatMsgs(texts) ==
    { [action |-> "chat", username |-> "Ana", message |-> t] : t \in texts }

AllPlayers == UNION { PlayerPool(i) : i \in Ids }

(* Messages whose action the client does not know, with the fields of a    *)
(* chat message; the second also has those of an emote message.            *)
UnknownMsgs ==
    { [action |-> "whisper", username |-> "Ana", message |-> "hi"],
      [action |-> "cheer", username |-> "Ana", message |-> "hi",
       playerId |-> "p1", emote |-> "wave"] }

Payload(m) == [kind |-> "json", value |-> m]

BadPayloads == { [kind |-> "text", value |-> "{oops"], [kind |-> "null", value |-> "null"] }

----------------------------------------------------------------------------
(* The whole client *)

Next ==
    \/ SocketOpen
    \/ SocketClosing
    \/ SocketClose
    \/ \E code \in Keys : KeyDown(code)
    \/ \E code \in Keys : KeyUp(code)
    \/ \E e \in emoteEmojis : EmoteClick(e)
    \/ \E t \in {"hi", "yo"} : ChatEnter(t)
    \/ AvatarUpload
    \/ \E m \in JoinAcceptedMsgs(Ids, PlayerTables(AllPlayers), AvatarTables) : OnJoinAccepted(m)
    \/ \E m \in JoinRejectedMsgs : OnJoinRejected(m)
    \/ \E m \in PlayersMovedMsgs(PlayerTables(AllPlayers)) : OnPlayersMoved(m)
    \/ \E m \in PlayerJoinedMsgs(AllPlayers) : OnPlayerJoined(m)
    \/ \E m \in PlayerLeftMsgs : OnPlayerLeft(m)
    \/ \E m \in EmoteMsgs({"wave", "heart", "shrug"}) : OnEmote(m)
    \/ \E m \in ChatMsgs({"hi", "yo"}) : OnChat(m)
    \/ \E m \in UnknownMsgs : OnUnknown(m)
    \/ \E data \in BadPayloads : OnUnparseable(data)
    \/ EmoteTimeout
    \/ \E d \in TimeSteps : Tick(d)
    \/ \E l \in loading : ImageLoad(l)
    \/ WorldImageLoad
    \/ WorldImageError
    \/ \E cv \in CanvasSizes : Resize(cv)
    \/ render

Spec == Init /\ [][Next]_vars

----------------------------------------------------------------------------
(* The input mapper with the connection: key events while the socket       *)
(* connects, is open, and closes.                                          *)

InputKeys == {"ArrowUp", "ArrowDown", "ArrowLeft", "ArrowRight", "Digit1"}

NextInput ==
    \/ SocketOpen
    \/ SocketClose
    \/ \E code \in InputKeys : KeyDown(code)
    \/ \E code \in InputKeys : KeyUp(code)

InitInput == InitWith([width |-> 800, height |-> 600], << WelcomeEntry >>)

SpecInput == InitInput /\ [][NextInput]_vars

----------------------------------------------------------------------------
(* Claims about the input mapper, under SpecInput *)

Intents(sent) == SelectSeq(sent, LAMBDA m : m.action \in {"move", "stop"})

MoveIntent(code) == MoveMsg(movementKeys[code])

KeyEvent(type, code) == [type |-> type, code |-> code, open |-> TRUE]

NorthSouthLog ==
    << KeyEvent("down", "ArrowUp"), KeyEvent("down", "ArrowDown"), KeyEvent("up", "ArrowDown") >>

C4_KeyDownStep ==
    (lastEvent'.kind = "keydown" /\ lastEvent'.arg \in DOMAIN movementKeys /\ IsOpen(socketState))
    => /\ pressedKeys' = pressedKeys \cup {lastEvent'.arg}
       /\ outbox' = Append(outbox, MoveIntent(lastEvent'.arg))

C4_KeyUpStep ==
    (lastEvent'.kind = "keyup" /\ lastEvent'.arg \in pressedKeys /\ IsOpen(socketState))
    => /\ pressedKeys' = pressedKeys \ {lastEvent'.arg}
       /\ outbox' = IF pressedKeys' = {} THEN Append(outbox, StopMsg) ELSE outbox

C4_Example ==
    /\ keyLog = NorthSouthLog
       => Intents(outbox) = << MoveIntent("ArrowUp"), MoveIntent("ArrowDown") >>
    /\ keyLog = Append(NorthSouthLog, KeyEvent("up", "ArrowUp"))
       => Intents(outbox) = << MoveIntent("ArrowUp"), MoveIntent("ArrowDown"), StopMsg >>

(* C4: while connected, a key-down of a movement key adds it to the held   *)
(* set and sends exactly one move for that key, whatever else is held; a   *)
(* key-up of a held movement key sends exactly one stop when the held set  *)
(* becomes empty and nothing otherwise.  Down(ArrowUp), down(ArrowDown),   *)
(* up(ArrowDown) sends the two moves only, and up(ArrowUp) then sends stop. *)
C4_IntentStream ==
    /\ [][C4_KeyDownStep /\ C4_KeyUpStep]_vars
    /\ []C4_Example

C4_Witness ==
    /\ keyLog = Append(NorthSouthLog, KeyEvent("up", "ArrowUp"))
    /\ lastEvent.kind = "keyup"
    /\ pressedKeys = {}
    /\ outbox[Len(outbox)] = StopMsg

WireDirections == {"north", "south", "east", "west"}

(* C5: every move message sent carries a direction that is one of north,   *)
(* south, east, west.                                                      *)
C5_MoveDirections ==
    \A i \in 1..Len(outbox) :
        outbox[i].action = "move" => outbox[i].direction \in WireDirections

----------------------------------------------------------------------------
(* The effect tracker with the clock: emotes shown by the local player and *)
(* by the server, their expiry timers, entities leaving, and render passes *)
(* at any time.                                                            *)

BothPlayers == [i \in Ids |-> PlayerVariant(i, 1)]

OneAvatar == [n \in {"a1"} |-> AvatarDef(n)]

NextEffects ==
    \/ SocketOpen
    \/ \E m \in JoinAcceptedMsgs({"p1"}, {BothPlayers}, {OneAvatar}) : OnJoinAccepted(m)
    \/ \E m \in PlayerLeftMsgs : OnPlayerLeft(m)
    \/ \E m \in EmoteMsgs({"wave"}) : OnEmote(m)
    \/ EmoteClick("heart")
    \/ EmoteTimeout
    \/ Tick(1500)

SpecEffects == InitInput /\ [][NextEffects]_vars

----------------------------------------------------------------------------
(* The world state store: every roster message, join acceptance and        *)
(* rejection (first join and re-join after an avatar upload).              *)

WorldPool == { PlayerVariant(i, v) : i \in Ids, v \in {1, 3} }

JoinPool == { PlayerVariant(i, 1) : i \in Ids }

MovedPool == { PlayerVariant(i, 3) : i \in Ids }

WorldAvatarTables == { [n \in S |-> AvatarDef(n)] : S \in {{"a1"}, {"a1", "a2"}} }

NextWorld ==
    \/ SocketOpen
    \/ AvatarUpload
    \/ \E m \in JoinAcceptedMsgs(Ids, PlayerTables(JoinPool), WorldAvatarTables) : OnJoinAccepted(m)
    \/ \E m \in JoinRejectedMsgs : OnJoinRejected(m)
    \/ \E m \in PlayersMovedMsgs(PlayerTables(MovedPool)) : OnPlayersMoved(m)
    \/ \E m \in PlayerJoinedMsgs(WorldPool) : OnPlayerJoined(m)
    \/ \E m \in PlayerLeftMsgs : OnPlayerLeft(m)

SpecWorld == InitInput /\ [][NextWorld]_vars

----------------------------------------------------------------------------
(* The camera: the local player placed anywhere by the server, the window  *)
(* taking any size, the world image arriving.                              *)

NextCamera ==
    \/ SocketOpen
    \/ \E m \in JoinAcceptedMsgs(Ids, PlayerTables(AllPlayers), {OneAvatar}) : OnJoinAccepted(m)
    \/ \E m \in PlayersMovedMsgs(PlayerTables(AllPlayers)) : OnPlayersMoved(m)
    \/ \E cv \in CanvasSizes : Resize(cv)
    \/ WorldImageLoad

SpecCamera == Init /\ [][NextCamera]_vars

----------------------------------------------------------------------------
(* The renderer with the effect tracker: entities whose sprites are loaded *)
(* and drawn, an emote on one of them, the clock, and render passes (a     *)
(* resize) at any time.                                                    *)

NextRender ==
    \/ SocketOpen
    \/ \E m \in JoinAcceptedMsgs({"p1"}, {BothPlayers}, {OneAvatar}) : OnJoinAccepted(m)
    \/ \E m \in EmoteMsgs({"wave"}) : OnEmote(m)
    \/ EmoteTimeout
    \/ Tick(1500)
    \/ \E l \in loading : ImageLoad(l)
    \/ Resize(canvas)

SpecRender == InitInput /\ [][NextRender]_vars

----------------------------------------------------------------------------
(* Claims about the effect tracker *)

(* C1: re-triggering restarts the lifetime: while an entity's effect is    *)
(* younger than emoteDuration, an expiry timer that fires (the one set by  *)
(* an earlier trigger) does not delete it.                                 *)
C1_RetriggerRestarts ==
    [][ \A id \in DOMAIN activeEmotes :
          (lastEvent'.kind = "timer" /\ now' < activeEmotes[id].startTime + emoteDuration)
          => (id \in DOMAIN activeEmotes' /\ activeEmotes'[id] = activeEmotes[id]) ]_vars

(* C2: an effect is inactive for every query made emoteDuration or more    *)
(* after its trigger: no render pass paints an effect overlay whose        *)
(* progress has reached 1.                                                 *)
C2_InactiveAfterDuration ==
    \A e \in frame.emotes : e.elapsed < emoteDuration

(* C3: after player_left for E, E is in neither the entity table nor the   *)
(* effect table; an expiry timer that fires for an entity that is not in   *)
(* the entity table changes neither the entity table nor the effect of any *)
(* other entity.                                                           *)
C3_AfterLeft ==
    lastEvent.kind = "player_left"
    => /\ lastEvent.arg.playerId \notin DOMAIN players
       /\ ~HasEmote(activeEmotes, lastEvent.arg.playerId)

C3_TimerStep ==
    (lastEvent'.kind = "timer" /\ lastEvent'.arg.playerId \notin DOMAIN players)
    => /\ players' = players
       /\ \A other \in (DOMAIN activeEmotes \cup DOMAIN activeEmotes') \ {lastEvent'.arg.playerId} :
            /\ other \in DOMAIN activeEmotes
            /\ other \in DOMAIN activeEmotes'
            /\ activeEmotes'[other] = activeEmotes[other]

C3_RemovalClearsEffect ==
    /\ []C3_AfterLeft
    /\ [][C3_TimerStep]_vars

C3_Witness ==
    /\ lastEvent.kind = "timer"
    /\ lastEvent.arg.playerId = "p2"
    /\ "p2" \notin DOMAIN players
    /\ \E i \in 1..Len(chatMessages) :
         chatMessages[i] = PlayerLeftEntry(PlayerVariant("p2", 1), 0)
    /\ HasEmote(activeEmotes, "p1")

----------------------------------------------------------------------------
(* Claims about the world state store, under SpecWorld *)

(* C6: players_moved is a whole-entity merge keyed by id: every id of the  *)
(* message maps to the message's entity, every other entity is what it was, *)
(* and the local identity and the appearance table are unchanged.          *)
C6_PartialUpdate ==
    [][ lastEvent'.kind = "players_moved"
        => LET update == lastEvent'.arg.players
           IN /\ DOMAIN players' = DOMAIN players \cup DOMAIN update
              /\ \A id \in DOMAIN update : players'[id] = update[id]
              /\ \A id \in DOMAIN players \ DOMAIN update : players'[id] = players[id]
              /\ myPlayerId' = myPlayerId
              /\ avatars' = avatars ]_vars

C6_Witness ==
    /\ lastEvent.kind = "players_moved"
    /\ DOMAIN lastEvent.arg.players = {"p1"}
    /\ DOMAIN players = {"p1", "p2"}
    /\ players["p1"] = PlayerVariant("p1", 3)
    /\ players["p2"] = PlayerVariant("p2", 1)

(* C7: an accepted join_game replaces the local identity and the entity    *)
(* and appearance tables by the message's: nothing known before survives   *)
(* unless the message holds it.                                            *)
C7_FullRoster ==
    [][ lastEvent'.kind = "join_accepted"
        => /\ myPlayerId' = lastEvent'.arg.playerId
           /\ players' = lastEvent'.arg.players
           /\ avatars' = lastEvent'.arg.avatars ]_vars

C7_Witness ==
    /\ lastEvent.kind = "join_accepted"
    /\ \E i \in 1..Len(outbox) : outbox[i] = JoinMsg(CustomAvatarDef)
    /\ chatMessages = << WelcomeEntry, JoinedEntry(0), JoinedEntry(0) >>
    /\ myPlayerId = "p2"
    /\ DOMAIN players = {"p2"}
    /\ DOMAIN avatars = {"a1"}

(* C10 as stated: after a rejected join_game the client has no local       *)
(* identity, the tables are unchanged and one system entry is appended to  *)
(* the chat log.                                                           *)
C10_Original ==
    [][ lastEvent'.kind = "join_rejected"
        => /\ myPlayerId' = Null
           /\ players' = players
           /\ avatars' = avatars
           /\ chatMessages' = addChatMessage(chatMessages, chatMessages'[Len(chatMessages')])
           /\ chatMessages'[Len(chatMessages')].type = "system" ]_vars

(* C10 as amended: a rejected join_game leaves the local identity as it    *)
(* was (none when no join was accepted before), leaves the tables and      *)
(* every other field unchanged, and appends one system entry to the chat   *)
(* log (evicting the oldest entry of a full log).                          *)
C10_RejectionKeepsState ==
    [][ lastEvent'.kind = "join_rejected"
        => /\ myPlayerId' = myPlayerId
           /\ players' = players
           /\ avatars' = avatars
           /\ LET entry == chatMessages'[Len(chatMessages')]
              IN /\ entry.type = "system"
                 /\ chatMessages' = IF Len(chatMessages) = maxChatMessages
                                    THEN Append(Tail(chatMessages), entry)
                                    ELSE Append(chatMessages, entry)
           /\ UNCHANGED <<socketState, outbox, pressedKeys, customAvatar, myPosition,
                          camera, canvas, worldImage, avatarImages, loading,
                          activeEmotes, timers, now, frame>> ]_vars

C10_Witness ==
    /\ lastEvent.kind = "join_rejected"
    /\ myPlayerId = "p1"
    /\ DOMAIN players = {"p1", "p2"}
    /\ chatMessages[Len(chatMessages)] = JoinFailedEntry(lastEvent.arg, 0)

----------------------------------------------------------------------------
(* Claims about the camera, under SpecCamera *)

ZeroCamera == [x2 |-> 0, y2 |-> 0, width |-> 0, height |-> 0]

Recomputes == {"world_loaded", "join_accepted", "players_moved", "resize"}

C8_InWorld ==
    (camera # ZeroCamera /\ canvas.width <= worldSize /\ canvas.height <= worldSize)
    => /\ camera.width = canvas.width
       /\ camera.height = canvas.height
       /\ 0 <= camera.x2 /\ camera.x2 <= 2 * (worldSize - camera.width)
       /\ 0 <= camera.y2 /\ camera.y2 <= 2 * (worldSize - camera.height)

(* C8: once the camera has been recomputed, whenever the canvas is no      *)
(* larger than the world, the camera has the canvas's size and lies within *)
(* the world: 0 <= x <= worldSize - width and 0 <= y <= worldSize - height. *)
C8_CameraInWorld ==
    /\ []C8_InWorld
    /\ [][lastEvent'.kind \in Recomputes => camera' # ZeroCamera]_vars

C8_Witness ==
    /\ lastEvent.kind \in Recomputes
    /\ canvas = [width |-> 1025, height |-> 2048]
    /\ myPosition = [x |-> 2100, y |-> -20]
    /\ camera.x2 = 2 * (worldSize - 1025)
    /\ camera.y2 = 0

----------------------------------------------------------------------------
(* The chat log: entries of every category inserted into a log that is     *)
(* fresh or one short of full.  A log of maxChatMessages - 1 entries is    *)
(* what the client holds after that many chat messages have arrived.       *)

AlmostFullLog ==
    [i \in 1..(maxChatMessages - 1) |->
        IF i = 1 THEN WelcomeEntry
        ELSE ChatEntry("Ana", << IF i % 2 = 0 THEN "hi" ELSE "yo" >>, "other", 0)]

InitChat ==
    \E log \in { << WelcomeEntry >>, AlmostFullLog } :
        InitWith([width |-> 800, height |-> 600], log)

NextChat ==
    \/ SocketOpen
    \/ \E t \in {"hi", "yo"} : ChatEnter(t)
    \/ \E m \in ChatMsgs({"hi", "yo"}) : OnChat(m)
    \/ \E m \in JoinRejectedMsgs : OnJoinRejected(m)
    \/ \E m \in PlayerJoinedMsgs(JoinPool) : OnPlayerJoined(m)

SpecChat == InitChat /\ [][NextChat]_vars

C9_Bounded == Len(chatMessages) <= maxChatMessages

C9_InsertStep ==
    chatAdds' = chatAdds + 1
    => LET entry == chatMessages'[Len(chatMessages')]
       IN /\ chatMessages' = IF Len(chatMessages) = maxChatMessages
                             THEN Append(Tail(chatMessages), entry)
                             ELSE Append(chatMessages, entry)
          /\ lastEvent'.kind = "chat_enter"
             => entry = ChatEntry("You", << lastEvent'.arg >>, "own", now)
          /\ lastEvent'.kind = "chat"
             => entry = ChatEntry(lastEvent'.arg.username, << lastEvent'.arg.message >>, "other", now)
          /\ lastEvent'.kind \in {"join_rejected", "player_joined"}
             => entry.type = "system"

(* C9: the chat log never holds more than maxChatMessages entries; an      *)
(* insertion into a full log drops exactly the oldest entry, and the other *)
(* entries keep their order with the new entry last.                       *)
C9_ChatFifo ==
    /\ []C9_Bounded
    /\ [][C9_InsertStep]_vars

C9_Witness ==
    /\ Len(chatMessages) = maxChatMessages
    /\ chatAdds = 2
    /\ lastEvent.kind = "chat"
    /\ chatMessages[1] = AlmostFullLog[2]
    /\ chatMessages[maxChatMessages - 1] # chatMessages[maxChatMessages]

----------------------------------------------------------------------------
(* Every intent with the connection in every state: key events, emote      *)
(* buttons, chat input and avatar upload while the socket connects, is     *)
(* open, closes and is closed.                                             *)

NextSend ==
    \/ SocketOpen
    \/ SocketClosing
    \/ SocketClose
    \/ KeyDown("ArrowUp")
    \/ KeyUp("ArrowUp")
    \/ EmoteClick("heart")
    \/ ChatEnter("hi")
    \/ AvatarUpload

SpecSend == InitInput /\ [][NextSend]_vars

IntentEvents == {"keydown", "keyup", "emote_click", "chat_enter", "upload"}

C11_IntentDropped ==
    (lastEvent'.kind \in IntentEvents /\ ~IsOpen(socketState))
    => /\ outbox' = outbox
       /\ socketState' = socketState

C11_SendOnlyOpen == outbox' # outbox => IsOpen(socketState')

(* C11: nothing is sent while the socket is not open: an intent (move,     *)
(* stop, emote, chat, re-join after avatar upload) handled while the       *)
(* socket is connecting, closing or closed passes nothing to socket.send   *)
(* (so socket.send cannot throw), and every send happens with the socket   *)
(* open.                                                                   *)
C11_NoSendUnlessOpen == [][C11_IntentDropped /\ C11_SendOnlyOpen]_vars

C11_Witness ==
    /\ socketState = "CLOSING"
    /\ lastEvent.kind = "chat_enter"
    /\ customAvatar = CustomAvatarDef
    /\ outbox = << joinGame(NoAvatar) >>
    /\ \E i \in 1..Len(keyLog) : keyLog[i] = [type |-> "down", code |-> "ArrowUp", open |-> FALSE]
    /\ \E i \in 1..Len(keyLog) : keyLog[i] = [type |-> "up", code |-> "ArrowUp", open |-> FALSE]

----------------------------------------------------------------------------
(* The protocol: every payload the socket may deliver, whichever case of   *)
(* the switch it takes, in any order.                                      *)

ProtocolMsgs ==
    JoinAcceptedMsgs({"p1"}, {BothPlayers}, {OneAvatar})
    \cup PlayersMovedMsgs({[i \in {"p1"} |-> PlayerVariant("p1", 3)]})
    \cup PlayerJoinedMsgs({PlayerVariant("p2", 3)})
    \cup { [action |-> "player_left", playerId |-> "p2"] }
    \cup { [action |-> "emote", playerId |-> "p1", emote |-> "wave"] }
    \cup ChatMsgs({"hi"})
    \cup JoinRejectedMsgs
    \cup UnknownMsgs

Payloads == { Payload(m) : m \in ProtocolMsgs } \cup BadPayloads

(* socket.onmessage: parse, then the case of the switch.                   *)
OnMessage(data) ==
    \/ OnUnparseable(data)
    \/ /\ ~Throws(data)
       /\ LET m == JSONparse(data)
          IN \/ OnJoinAccepted(m)
             \/ OnJoinRejected(m)
             \/ OnPlayersMoved(m)
             \/ OnPlayerJoined(m)
             \/ OnPlayerLeft(m)
             \/ OnEmote(m)
             \/ OnChat(m)
             \/ OnUnknown(m)

NextProtocol ==
    \/ SocketOpen
    \/ \E data \in Payloads : OnMessage(data)
    \/ Tick(1500)

SpecProtocol == InitInput /\ [][NextProtocol]_vars

InboundEvents ==
    {"join_accepted", "join_rejected", "players_moved", "player_joined", "player_left",
     "emote", "chat", "unknown"}

C12_Dropped ==
    \/ lastEvent'.kind = "unparseable"
    \/ lastEvent'.kind \in InboundEvents /\ lastEvent'.arg.action \notin KnownActions

C12_Step ==
    C12_Dropped
    => /\ IsOpen(socketState')
       /\ UNCHANGED <<socketState, outbox, pressedKeys, customAvatar, myPlayerId,
                      players, avatars, myPosition, camera, canvas, worldImage,
                      avatarImages, loading, activeEmotes, timers, now, chatMessages,
                      frame>>

C12_StillListening ==
    (lastEvent.kind \in {"unknown", "unparseable"} /\ chatAdds < MaxChatAdds)
    => \A m \in ChatMsgs({"hi"}) : ENABLED OnChat(m)

(* C12: a message whose action is none of the six known ones, and a        *)
(* payload that cannot be parsed, change nothing: identity, entity,        *)
(* appearance and effect tables, chat log, camera and every other field    *)
(* are unchanged, the socket stays open, and the next message is still     *)
(* handled.                                                                *)
C12_UnknownIgnored ==
    /\ [][C12_Step]_vars
    /\ []C12_StillListening

C12_Witness ==
    /\ lastEvent.kind = "unknown"
    /\ lastEvent.arg.action = "whisper"
    /\ myPlayerId = "p1"
    /\ DOMAIN activeEmotes = {"p1"}
    /\ chatMessages = << WelcomeEntry, JoinedEntry(0) >>

----------------------------------------------------------------------------
(* Claims about the local position, under SpecWorld *)

Undefined == [undefined |-> TRUE]

LocalKnown == myPlayerId # Null /\ myPlayerId \in DOMAIN players

(* C13: the local position is undefined when no local identity is set or   *)
(* the local identity is not in the entity table, and otherwise is the x,  *)
(* y of the local identity's entry in the entity table.                    *)
C13_LocalPosition ==
    IF LocalKnown
    THEN myPosition = [x |-> players[myPlayerId].x, y |-> players[myPlayerId].y]
    ELSE myPosition = Undefined

----------------------------------------------------------------------------
(* More claims about the effect tracker, under SpecEffects *)

Triggered ==
    \/ lastEvent'.kind = "emote"
    \/ lastEvent'.kind = "emote_click" /\ IsOpen(socketState)

TriggerId == IF lastEvent'.kind = "emote" THEN lastEvent'.arg.playerId ELSE myPlayerId

TriggerType == IF lastEvent'.kind = "emote" THEN lastEvent'.arg.emote ELSE lastEvent'.arg

C14_TriggerStep ==
    Triggered
    => /\ DOMAIN activeEmotes' = DOMAIN activeEmotes \cup {TriggerId}
       /\ activeEmotes'[TriggerId] = [type |-> TriggerType, startTime |-> now]
       /\ \A other \in DOMAIN activeEmotes \ {TriggerId} :
            activeEmotes'[other] = activeEmotes[other]

C14_OnePerEntity ==
    /\ DOMAIN activeEmotes \subseteq Ids \cup {Null}
    /\ \A id \in DOMAIN activeEmotes : DOMAIN activeEmotes[id] = {"type", "startTime"}

(* C14: the effect table holds at most one effect per entity; a trigger    *)
(* for an entity, whether or not it has an effect already, leaves it with  *)
(* exactly one, whose type and start time are those of this trigger, and   *)
(* leaves the effects of the other entities as they were.                  *)
C14_LatestTriggerWins ==
    /\ []C14_OnePerEntity
    /\ [][C14_TriggerStep]_vars

C14_Witness ==
    /\ lastEvent.kind = "emote_click"
    /\ myPlayerId = "p1"
    /\ activeEmotes = [i \in {"p1"} |-> [type |-> "heart", startTime |-> 1500]]
    /\ timers = << ExpiryTimer("p1", 0), ExpiryTimer("p1", 1500) >>
    /\ \E i \in 1..Len(outbox) : outbox[i] = EmoteMsg("heart")

----------------------------------------------------------------------------
(* The asset cache: full rosters (the first join and re-joins), players    *)
(* joining with a new or a known appearance, and frame images arriving in  *)
(* any order.                                                              *)

NextAssets ==
    \/ SocketOpen
    \/ \E m \in JoinAcceptedMsgs({"p1"}, {BothPlayers}, WorldAvatarTables) : OnJoinAccepted(m)
    \/ \E m \in PlayerJoinedMsgs({PlayerVariant("p2", 1), PlayerVariant("p2", 3)}) : OnPlayerJoined(m)
    \/ \E l \in loading : ImageLoad(l)

SpecAssets == InitInput /\ [][NextAssets]_vars

Registered(images, name) == name \in DOMAIN images

C15_StartedOnce ==
    \A l \in loading' \ loading :
        /\ ~Registered(avatarImages, l.name)
        /\ Registered(avatarImages', l.name)
        /\ l.direction \in {"north", "south", "east"}

C15_CacheKept ==
    lastEvent'.kind \in {"join_accepted", "player_joined"}
    => \A n \in DOMAIN avatarImages :
         Registered(avatarImages', n) /\ avatarImages'[n] = avatarImages[n]

C15_SecondEnsure ==
    (lastEvent'.kind = "player_joined" /\ Registered(avatarImages, lastEvent'.arg.avatar.name))
    => /\ loadAvatarImageStarts(avatarImages, lastEvent'.arg.avatar) = {}
       /\ loading' = loading
       /\ avatarImages' = avatarImages

C15_Pending ==
    \A l \in loading :
        /\ Registered(avatarImages, l.name)
        /\ l.index \notin avatarImages[l.name][l.direction]

(* C15: the frame loads of an appearance name are started at most once:    *)
(* a step starts loads only for names that were not registered and are     *)
(* registered after it (and a registered name stays registered), only for  *)
(* north, south and east; ensureLoaded for a registered name starts no     *)
(* load and leaves the image cache as it was.                              *)
C15_LoadOnce ==
    /\ [][C15_StartedOnce /\ C15_CacheKept /\ C15_SecondEnsure]_vars
    /\ []C15_Pending

C15_Witness ==
    /\ lastEvent.kind = "player_joined"
    /\ lastEvent.arg.avatar.name = "a1"
    /\ DOMAIN avatarImages = {"a1"}
    /\ avatarImages["a1"] = [north |-> {}, south |-> {0}, east |-> {0}]
    /\ loading = { [name |-> "a1", direction |-> "north", index |-> 0] }
    /\ chatAdds = 2

----------------------------------------------------------------------------
(* The renderer on its own: the states of SpecRender, with a render pass   *)
(* in any of them.                                                         *)

NextPaint ==
    \/ NextRender
    \/ render

SpecPaint == InitInput /\ [][NextPaint]_vars

(* C16: a render pass is read-only: it leaves the entity table, the local  *)
(* identity, the appearance table, the effect table (whatever the age of   *)
(* its records), the image cache, the chat log, the held keys and the      *)
(* camera as they were, and sets no timer.                                 *)
C16_RenderReadOnly ==
    [][ lastEvent'.kind = "render"
        => /\ UNCHANGED <<players, myPlayerId, avatars, activeEmotes, avatarImages,
                          loading, chatMessages, pressedKeys, camera, timers>>
           /\ UNCHANGED <<socketState, outbox, customAvatar, myPosition, canvas,
                          worldImage, now>>
           /\ frame' = FrameOf(worldImage, players, avatars, avatarImages, camera,
                               activeEmotes, now) ]_vars

C16_Witness ==
    /\ lastEvent.kind = "render"
    /\ now >= emoteDuration
    /\ HasEmote(activeEmotes, "p1")
    /\ activeEmotes["p1"].startTime = 0
    /\ timers # << >>
    /\ \E e \in frame.emotes : e.id = "p1" /\ e.elapsed >= emoteDuration
    /\ Cardinality(frame.sprites) = 2

----------------------------------------------------------------------------
(* More claims about the connection, under SpecSend *)

C17_ClosedStep ==
    /\ lastEvent'.kind = "close" => socketState' = "CLOSED"
    /\ socketState = "CLOSED" => (socketState' = "CLOSED" /\ outbox' = outbox)

(* C17: no reconnect and no retry: when the connection closes or fails the *)
(* socket is closed and stays closed, and from then on nothing is sent:    *)
(* not the intents handled after the close, not those dropped before it,   *)
(* not the join request.                                                   *)
C17_NoReconnect == [][C17_ClosedStep]_vars

C17_Witness ==
    /\ socketState = "CLOSED"
    /\ outbox = << >>
    /\ lastEvent.kind = "emote_click"
    /\ customAvatar = CustomAvatarDef
    /\ keyLog = << [type |-> "down", code |-> "ArrowUp", open |-> FALSE],
                   [type |-> "up", code |-> "ArrowUp", open |-> FALSE] >>

----------------------------------------------------------------------------
(* Claims about the expiry timers, under SpecEffects *)

PendingFor(id) == { i \in 1..Len(timers) : timers[i].playerId = id }

(* C18: at most one removal timer is pending per entity at any time,       *)
(* whatever the sequence of local emote intents and inbound emote messages. *)
C18_OnePendingTimer ==
    \A id \in Ids \cup {Null} : Cardinality(PendingFor(id)) <= 1

----------------------------------------------------------------------------
(* More claims about the camera, under SpecWorld *)

CameraEvents == {"join_accepted", "players_moved", "player_joined", "player_left", "resize"}

LocalEntry == players[myPlayerId]

(* C19: after a join acknowledgment, players_moved, player_joined,         *)
(* player_left or resize, whenever the local identity is in the entity     *)
(* table, the camera is the rectangle computed from the canvas size and    *)
(* the x, y of the local identity's entry.                                 *)
C19_CameraFollowsLocal ==
    (lastEvent.kind \in CameraEvents /\ LocalKnown)
    => camera = updateCamera(canvas, [x |-> LocalEntry.x, y |-> LocalEntry.y])

----------------------------------------------------------------------------
(* More claims about the renderer, under SpecRender *)

(* C20: while the world image has not finished loading, a render pass      *)
(* paints nothing: no sprite (with its label) and no effect overlay.       *)
C20_BlankUntilWorldLoaded ==
    (lastEvent.rendered /\ worldImage # "loaded")
    => (frame.sprites = {} /\ frame.emotes = {})

----------------------------------------------------------------------------
(* Every event that changes what the canvas should show: rosters, entities *)
(* joining, moving and leaving, effects started by the server and by the   *)
(* local player, expiry timers, images arriving, the window resized.  One  *)
(* session: the client joins once, the second player comes and goes, and   *)
(* an effect is started when no expiry timer is pending.                   *)

NextEvents ==
    \/ SocketOpen
    \/ /\ myPlayerId = Null
       /\ \E m \in JoinAcceptedMsgs({"p1"}, {BothPlayers}, {OneAvatar}) : OnJoinAccepted(m)
    \/ \E m \in PlayersMovedMsgs({[i \in {"p1"} |-> PlayerVariant("p1", 2)]}) : OnPlayersMoved(m)
    \/ /\ "p2" \notin DOMAIN players
       /\ \E m \in PlayerJoinedMsgs({PlayerVariant("p2", 1)}) : OnPlayerJoined(m)
    \/ /\ "p2" \in DOMAIN players
       /\ OnPlayerLeft([action |-> "player_left", playerId |-> "p2"])
    \/ /\ timers = << >>
       /\ OnEmote([action |-> "emote", playerId |-> "p1", emote |-> "wave"])
    \/ /\ timers = << >>
       /\ EmoteClick("heart")
    \/ EmoteTimeout
    \/ Tick(emoteDuration)
    \/ \E l \in loading : ImageLoad(l)
    \/ Resize(canvas)

SpecEvents == InitInput /\ [][NextEvents]_vars

StateAffecting ==
    \/ lastEvent'.kind \in {"join_accepted", "players_moved", "player_joined", "player_left",
                            "emote", "timer", "image", "resize"}
    \/ lastEvent'.kind = "emote_click" /\ IsOpen(socketState)
    \/ lastEvent'.kind = "keydown" /\ lastEvent'.arg \in DOMAIN emoteKeys /\ IsOpen(socketState)

C21_Step ==
    StateAffecting
    => /\ lastEvent'.rendered
       /\ frame' = FrameOf(worldImage', players', avatars', avatarImages', camera',
                           activeEmotes', now')

(* C21: every state-affecting event (accepted full roster, players_moved,  *)
(* player_joined, player_left, an effect started by a message or by the    *)
(* local player, an expiry timer firing, a frame image loaded, a resize)   *)
(* ends, within its handler, with a render pass: the canvas then shows the *)
(* frame of the state the handler leaves.                                  *)
C21_RenderAfterEvent == [][C21_Step]_vars

C21_Witness ==
    /\ lastEvent.kind = "player_left"
    /\ frame.sprites = { Sprite(PlayerVariant("p1", 2)) }
    /\ \E e \in frame.emotes : e.id = "p1" /\ e.glyph = "heart"

----------------------------------------------------------------------------
(* Claims about the keys of the effect table, under SpecEffects *)

(* C22: every key of the effect table is the id of an entity in the entity *)
(* table: an emote for an id that is not (or no longer) in the entity      *)
(* table, and a local emote before the join acknowledgment, record no      *)
(* effect.                                                                 *)
C22_EffectsOfKnownEntities == DOMAIN activeEmotes \subseteq DOMAIN players

====
